---- MODULE Spec2Model ----
(***************************************************************************)
(* Model of src/main.py: a Telegram bot that asks four yes/no questions    *)
(* every day at a per-chat time and then asks for tomorrow's goal.         *)
(*                                                                         *)
(* Python dicts are functions whose DOMAIN is the set of keys present, so  *)
(* a record that lacks "state" differs from one whose state is "idle".     *)
(* Strings that the code parses are sequences of one-character strings.    *)
(*                                                                         *)
(* Scheduling: the application is built with the default builder           *)
(* (main.py:63), so updates are handled one at a time; job callbacks run   *)
(* as tasks of their own on the same event loop and interleave with the    *)
(* update handler at every await.  A step of the model is the code between *)
(* two awaits.                                                             *)
(***************************************************************************)
EXTENDS Integers, Sequences, FiniteSets, TLC

\* ---- bounds -------------------------------------------------------------
\* job callbacks that may be suspended in send_message at once
MaxTasks == 1

\* chat ids that occur
Chats == {1, 2}

\* the chat that talks to the bot in Spec and LiveSpec
Solo == {1}

\* ---- program constants ---------------------------------------------------
DEFAULT_HOUR == 1
DEFAULT_MINUTE == 0
JOB_NAME == "daily_questions_job"
QUESTIONS == <<"Goal", "New", "Growth", "Sport">>

None == "None"
NoUpdate == [handler |-> "none"]

QuestionSet == {QUESTIONS[i] : i \in 1 .. Len(QUESTIONS)}

VARIABLES
    user_states,   \* main.py:47   chat_id -> dict, DOMAIN = chats with a record
    jobs,          \* the JobQueue: sequence of jobs (name, data, hour, minute)
    upd,           \* the update handler suspended at an await, or NoUpdate
    tasks,         \* send_daily_questions callbacks suspended in send_message
    rendered,      \* prompt messages the transport has shown in the chats
    followups,     \* per chat: follow-up prompts sent since the last fire
    lastSet,       \* per chat: time of the last successful settime, or default
    scheduled      \* chats that have had a start or a successful settime

vars == <<user_states, jobs, upd, tasks, rendered, followups, lastSet, scheduled>>

\* ---- dict helpers ----------------------------------------------------------
\* d[k] = v
Put(d, k, v) == [x \in (DOMAIN d) \cup {k} |-> IF x = k THEN v ELSE d[x]]

\* d.setdefault(k, v): the dict after the call
SetDefault(d, k, v) == IF k \in DOMAIN d THEN d ELSE Put(d, k, v)

\* d.get(k)
Get(d, k) == IF k \in DOMAIN d THEN d[k] ELSE None

\* truthiness of user_states.get(c): None and the empty dict are both falsy
Truthy(store, c) == c \in DOMAIN store /\ DOMAIN store[c] # {}

\* ---- str.split and int() -------------------------------------------------
RECURSIVE SplitFrom(_, _, _, _)
SplitFrom(s, sep, i, cur) ==
    IF i > Len(s) THEN <<cur>>
    ELSE IF s[i] = sep THEN <<cur>> \o SplitFrom(s, sep, i + 1, <<>>)
    ELSE SplitFrom(s, sep, i + 1, Append(cur, s[i]))

\* s.split(sep): the list of parts
Split(s, sep) == SplitFrom(s, sep, 1, <<>>)

Digits == {"0", "1", "2", "3", "4", "5", "6", "7", "8", "9"}

DigitVal(ch) ==
    CASE ch = "0" -> 0 [] ch = "1" -> 1 [] ch = "2" -> 2 [] ch = "3" -> 3
      [] ch = "4" -> 4 [] ch = "5" -> 5 [] ch = "6" -> 6 [] ch = "7" -> 7
      [] ch = "8" -> 8 [] ch = "9" -> 9

RECURSIVE Strip(_)
Strip(s) ==
    IF s = <<>> THEN s
    ELSE IF Head(s) = " " THEN Strip(Tail(s))
    ELSE IF s[Len(s)] = " " THEN Strip(SubSeq(s, 1, Len(s) - 1))
    ELSE s

RECURSIVE DigitsVal(_, _)
DigitsVal(s, acc) ==
    IF s = <<>> THEN acc ELSE DigitsVal(Tail(s), 10 * acc + DigitVal(Head(s)))

\* int(s): [ok |-> TRUE, val |-> n], or ok = FALSE where int() raises ValueError
IntParse(s) ==
    LET t == Strip(s)
        signed == t # <<>> /\ Head(t) \in {"+", "-"}
        body == IF signed THEN Tail(t) ELSE t
    IN  IF body = <<>> \/ \E i \in 1 .. Len(body) : body[i] \notin Digits
        THEN [ok |-> FALSE, val |-> 0]
        ELSE [ok |-> TRUE,
              val |-> IF signed /\ Head(t) = "-" THEN 0 - DigitsVal(body, 0)
                      ELSE DigitsVal(body, 0)]

\* main.py:120-128: the try block of settime_command; ok = FALSE where the
\* bare except is taken
ParseTime(time_str) ==
    LET parts == Split(time_str, ":")
    IN  IF Len(parts) # 2 THEN [ok |-> FALSE, hour |-> 0, minute |-> 0]
        ELSE LET h == IntParse(parts[1])
                 m == IntParse(parts[2])
             IN  IF ~h.ok \/ ~m.ok THEN [ok |-> FALSE, hour |-> 0, minute |-> 0]
                 ELSE IF ~(0 <= h.val /\ h.val < 24 /\ 0 <= m.val /\ m.val < 60)
                      THEN [ok |-> FALSE, hour |-> 0, minute |-> 0]
                 ELSE [ok |-> TRUE, hour |-> h.val, minute |-> m.val]

\* ---- inputs ----------------------------------------------------------------
\* context.args of a settime command
SettimeArgs ==
    { <<>>,
      << <<"0","2",":","3","0">> >>,
      << <<"2",":","3","0">> >>,
      << <<"0","3",":","1","5">> >>,
      << <<"+","3",":"," ","1","5">> >>,
      << <<"2","5",":","0","0">> >>,
      << <<"1","2",":","6","0">> >>,
      << <<"a","b",":","c","d">> >>,
      << <<"0","2","3","0">> >>,
      << <<"1",":","2",":","3">> >>,
      << <<"0","2",":","3","0">>, <<"x">> >> }

\* ---- JobQueue helpers --------------------------------------------------------
\* faulty variant of _remove_existing_job: the whole queue is cleared
_remove_existing_job_clear(js, job_name, chat_id) == <<>>

\* faulty variants of _remove_existing_job: nothing is removed; the test on
\* job.data is missing
_remove_existing_job_keeps(js, job_name, chat_id) == js

_remove_existing_job_any_chat(js, job_name, chat_id) ==
    SelectSeq(js, LAMBDA job : job.name # job_name)

\* main.py:207-215
_remove_existing_job(js, job_name, chat_id) ==
    SelectSeq(js, LAMBDA job : ~(job.name = job_name /\ job.data = chat_id))

\* faulty variant of _add_daily_job: the job is registered at the default time
_add_daily_job_default(js, chat_id, hour, minute) ==
    Append(js, [name |-> JOB_NAME, data |-> chat_id,
                hour |-> DEFAULT_HOUR, minute |-> DEFAULT_MINUTE])

\* main.py:218-228
_add_daily_job(js, chat_id, hour, minute) ==
    Append(js, [name |-> JOB_NAME, data |-> chat_id, hour |-> hour, minute |-> minute])

JobsOf(c) == SelectSeq(jobs, LAMBDA job : job.data = c)

\* ---- initial state -----------------------------------------------------------
Init ==
    /\ user_states = <<>>
    /\ jobs = <<>>
    /\ upd = NoUpdate
    /\ tasks = <<>>
    /\ rendered = {}
    /\ followups = [c \in Chats |-> 0]
    /\ lastSet = [c \in Chats |-> <<DEFAULT_HOUR, DEFAULT_MINUTE>>]
    /\ scheduled = {}

\* user_states.setdefault(chat_id, {}): the store after the call
StoreSetDefault(store, c) == SetDefault(store, c, <<>>)

\* ---- /start ------------------------------------------------------------------
\* faulty variant of StartDefaults: the three keys are assigned, not defaulted
StartDefaults_assigns(d) ==
    Put(Put(Put(d, "state", "idle"), "send_hour", DEFAULT_HOUR),
        "send_minute", DEFAULT_MINUTE)

\* main.py:87-89: the record after the three setdefault calls
StartDefaults(d) ==
    SetDefault(SetDefault(SetDefault(d, "state", "idle"),
                          "send_hour", DEFAULT_HOUR),
               "send_minute", DEFAULT_MINUTE)

\* main.py:77-104
start_command(c) ==
    /\ upd = NoUpdate
    /\ LET store == StoreSetDefault(user_states, c)
           user_data == StartDefaults(store[c])
       IN  /\ user_states' = Put(store, c, user_data)
           /\ jobs' = _add_daily_job(_remove_existing_job(jobs, JOB_NAME, c), c,
                                     user_data["send_hour"], user_data["send_minute"])
    /\ scheduled' = scheduled \cup {c}
    /\ UNCHANGED <<upd, tasks, rendered, followups, lastSet>>

\* ---- /settime ----------------------------------------------------------------
\* main.py:115-140: the text settime_command replies with
settime_reply(args) ==
    IF Len(args) # 1 THEN "usage"
    ELSE IF ~ParseTime(args[1]).ok THEN "bad_format"
    ELSE "time_set"

\* main.py:107-140
settime_command(c, args) ==
    /\ upd = NoUpdate
    /\ LET store == StoreSetDefault(user_states, c)
           p == IF Len(args) = 1 THEN ParseTime(args[1])
                ELSE [ok |-> FALSE, hour |-> 0, minute |-> 0]
       IN  IF Len(args) # 1
           THEN \* main.py:115-117
                /\ user_states' = store
                /\ UNCHANGED <<jobs, lastSet, scheduled>>
           ELSE IF ~p.ok
           THEN \* main.py:126-128
                /\ user_states' = store
                /\ UNCHANGED <<jobs, lastSet, scheduled>>
           ELSE /\ user_states' =
                      Put(store, c, Put(Put(store[c], "send_hour", p.hour),
                                        "send_minute", p.minute))
                /\ jobs' = _add_daily_job(_remove_existing_job(jobs, JOB_NAME, c),
                                          c, p.hour, p.minute)
                /\ lastSet' = [lastSet EXCEPT ![c] = <<p.hour, p.minute>>]
                /\ scheduled' = scheduled \cup {c}
    /\ UNCHANGED <<upd, tasks, rendered, followups>>

\* ---- the daily job callback ------------------------------------------------
\* A message id is named by the chat, the question and whether the message
\* belongs to the prompts of the chat's latest trigger fire ("cur") or to an
\* earlier one ("old"); a fire renames the chat's "cur" ids to "old".
Handle(c, gen, i) == <<c, gen, i>>

AgeHandle(h, c) == IF h[1] = c THEN Handle(c, "old", h[3]) ELSE h

AgeTask(t, c) == IF t.chat = c THEN [t EXCEPT !.gen = "old"] ELSE t

AgeUpd(u, c) ==
    IF u # NoUpdate /\ u.chat = c THEN [u EXCEPT !.message = AgeHandle(@, c)] ELSE u

RemoveAt(seq, k) == SubSeq(seq, 1, k - 1) \o SubSeq(seq, k + 1, Len(seq))

\* {q: None for q in QUESTIONS}
FreshAnswers == [q \in QuestionSet |-> None]

\* faulty variant of ResetCycle: a state the record already has is kept
ResetCycle_keeps_state(d) ==
    Put(Put(SetDefault(d, "state", "answering"), "answers", FreshAnswers), "messages", <<>>)

\* faulty variant of ResetCycle: answers and messages of the previous cycle are kept
ResetCycle_keeps(d) ==
    SetDefault(SetDefault(Put(d, "state", "answering"), "answers", FreshAnswers),
               "messages", <<>>)

\* main.py:238-243: the session after the reset at the top of the callback
ResetCycle(d) ==
    Put(Put(Put(d, "state", "answering"), "answers", FreshAnswers), "messages", <<>>)

\* main.py:233-252: job j fires; the callback resets the session and suspends
\* in the first send_message
send_daily_questions(j) ==
    LET c == jobs[j].data
        store == StoreSetDefault(user_states, c)
    IN  /\ user_states' = Put(store, c, ResetCycle(store[c]))
        /\ followups' = [followups EXCEPT ![c] = 0]
        /\ tasks' = Append([k \in 1 .. Len(tasks) |-> AgeTask(tasks[k], c)],
                           [chat |-> c, gen |-> "cur", i |-> 1])
        /\ rendered' = {AgeHandle(h, c) : h \in rendered} \cup {Handle(c, "cur", 1)}
        /\ upd' = AgeUpd(upd, c)
        /\ UNCHANGED <<jobs, lastSet, scheduled>>

\* faulty variant of StoreMessage: the answers are cleared with every prompt
StoreMessage_resets(user_data, question, message_id) ==
    Put(Put(user_data, "answers", FreshAnswers),
        "messages", Put(user_data["messages"], question, message_id))

\* main.py:257: user_data["messages"][question] = msg.message_id
StoreMessage(user_data, question, message_id) ==
    Put(user_data, "messages", Put(user_data["messages"], question, message_id))

\* main.py:252-257 and the next turn of the loop: send_message returns, the
\* message id is stored, and the callback suspends in the next send or ends
send_daily_questions_resume(k) ==
    LET t == tasks[k]
        c == t.chat
        user_data == user_states[c]
    IN  /\ user_states' =
              Put(user_states, c,
                  StoreMessage(user_data, QUESTIONS[t.i], Handle(c, t.gen, t.i)))
        /\ IF t.i < Len(QUESTIONS)
           THEN /\ tasks' = [tasks EXCEPT ![k].i = @ + 1]
                /\ rendered' = rendered \cup {Handle(c, t.gen, t.i + 1)}
           ELSE /\ tasks' = RemoveAt(tasks, k)
                /\ UNCHANGED rendered
        /\ UNCHANGED <<jobs, upd, followups, lastSet, scheduled>>

\* main.py:252: send_message raises; the callback ends with the exception
send_daily_questions_fails(k) ==
    /\ tasks' = RemoveAt(tasks, k)
    /\ UNCHANGED <<user_states, jobs, upd, rendered, followups, lastSet, scheduled>>

\* ---- inline buttons --------------------------------------------------------
\* callback_data a press on message h may carry (main.py:248-249, 169-171)
ButtonData(h) ==
    {<<QUESTIONS[h[3]], "|", "no">>, <<QUESTIONS[h[3]], "|", "yes">>, <<"chosen">>}

\* main.py:168-171: the single button the keyboard is collapsed to
Indicator(answer) == IF answer = "yes" THEN "chosen_yes" ELSE "chosen_no"

\* faulty variants of AllAnswered: any() instead of all(); only "yes" counts as answered
AllAnswered_any(answers) == \E q \in DOMAIN answers : answers[q] # None

AllAnswered_yes(answers) == \A q \in DOMAIN answers : answers[q] = "yes"

\* main.py:179: all(v is not None for v in answers.values())
AllAnswered(answers) == \A q \in DOMAIN answers : answers[q] # None

\* faulty variant of AlreadyAnswered: the check for an earlier answer is missing
AlreadyAnswered_never(answers, question) == FALSE

\* main.py:161: the question already has an answer
AlreadyAnswered(answers, question) == Get(answers, question) # None

\* faulty variant of button_callback: the press is recorded whatever the state
\* and whatever was answered before
button_callback_always_records(h, data) ==
    LET c == h[1]
        parts == Split(data, "|")
    IN  /\ upd = NoUpdate
        /\ IF ~Truthy(user_states, c) \/ Len(parts) # 2
           THEN UNCHANGED <<user_states, upd>>
           ELSE LET user_data == user_states[c]
                    answers == IF "answers" \in DOMAIN user_data
                               THEN user_data["answers"] ELSE <<>>
                IN  /\ user_states' =
                          Put(user_states, c,
                              Put(user_data, "answers",
                                  Put(answers, parts[1][1], parts[2][1])))
                    /\ upd' = [handler |-> "button_callback", chat |-> c,
                                message |-> h, markup |-> Indicator(parts[2][1])]
        /\ UNCHANGED <<jobs, tasks, rendered, followups, lastSet, scheduled>>

\* faulty variant of button_callback: a press is taken only on the prompt whose
\* id is stored for the question
button_callback_own_prompt_only(h, data) ==
    LET c == h[1]
        parts == Split(data, "|")
    IN  /\ upd = NoUpdate
        /\ IF ~Truthy(user_states, c) \/ Get(user_states[c], "state") # "answering"
           THEN UNCHANGED <<user_states, upd>>
           ELSE IF Len(parts) # 2
           THEN UNCHANGED <<user_states, upd>>
           ELSE LET question == parts[1][1]
                    answer == parts[2][1]
                    user_data == user_states[c]
                IN  IF \/ AlreadyAnswered(user_data["answers"], question)
                       \/ question \notin DOMAIN user_data["messages"]
                       \/ user_data["messages"][question] # h
                    THEN UNCHANGED <<user_states, upd>>
                    ELSE /\ user_states' =
                               Put(user_states, c,
                                   Put(user_data, "answers",
                                       Put(user_data["answers"], question, answer)))
                         /\ upd' = [handler |-> "button_callback", chat |-> c,
                                     message |-> h, markup |-> Indicator(answer)]
        /\ UNCHANGED <<jobs, tasks, rendered, followups, lastSet, scheduled>>

\* main.py:145-174: a button of message h is pressed; the handler runs up to
\* the await of edit_reply_markup
button_callback(h, data) ==
    LET c == h[1]
        parts == Split(data, "|")
    IN  /\ upd = NoUpdate
        /\ IF ~Truthy(user_states, c) \/ Get(user_states[c], "state") # "answering"
           THEN \* main.py:154-155
                UNCHANGED <<user_states, upd>>
           ELSE IF Len(parts) # 2
           THEN \* main.py:158: the unpacking raises ValueError
                UNCHANGED <<user_states, upd>>
           ELSE LET question == parts[1][1]
                    answer == parts[2][1]
                    user_data == user_states[c]
                IN  IF AlreadyAnswered(user_data["answers"], question)
                    THEN \* main.py:161-162
                         UNCHANGED <<user_states, upd>>
                    ELSE /\ user_states' =
                               Put(user_states, c,
                                   Put(user_data, "answers",
                                       Put(user_data["answers"], question, answer)))
                         /\ upd' = [handler |-> "button_callback", chat |-> c,
                                     message |-> h, markup |-> Indicator(answer)]
        /\ UNCHANGED <<jobs, tasks, rendered, followups, lastSet, scheduled>>

\* faulty variant of button_callback_resume: the exception of edit_reply_markup
\* is not caught and ends the handler
button_callback_resume_raises(ok) ==
    /\ upd # NoUpdate
    /\ LET c == upd.chat
           user_data == user_states[c]
       IN  IF ok /\ AllAnswered(user_data["answers"])
           THEN /\ user_states' =
                      Put(user_states, c, Put(user_data, "state", "waiting_for_tomorrow_goal"))
                /\ followups' = [followups EXCEPT ![c] = @ + 1]
           ELSE UNCHANGED <<user_states, followups>>
    /\ upd' = NoUpdate
    /\ UNCHANGED <<jobs, tasks, rendered, lastSet, scheduled>>

\* main.py:173-181: edit_reply_markup returns (ok) or raises (swallowed), then
\* the handler checks for completion
button_callback_resume(ok) ==
    /\ upd # NoUpdate
    /\ LET c == upd.chat
           user_data == user_states[c]
       IN  IF AllAnswered(user_data["answers"])
           THEN /\ user_states' =
                      Put(user_states, c, Put(user_data, "state", "waiting_for_tomorrow_goal"))
                /\ followups' = [followups EXCEPT ![c] = @ + 1]
           ELSE UNCHANGED <<user_states, followups>>
    /\ upd' = NoUpdate
    /\ UNCHANGED <<jobs, tasks, rendered, lastSet, scheduled>>

\* ---- free text ---------------------------------------------------------------
\* faulty variant of AwaitingGoal: free text is taken in every state but idle
AwaitingGoal_not_idle(d) == Get(d, "state") # "idle"

\* main.py:196
AwaitingGoal(d) == Get(d, "state") = "waiting_for_tomorrow_goal"

\* main.py:192-202: the text message_handler replies with, None if it sends
\* nothing
message_reply(store, c) ==
    IF ~Truthy(store, c) THEN None
    ELSE IF AwaitingGoal(store[c]) THEN "goal_accepted"
    ELSE None

\* main.py:186-202
message_handler(c) ==
    /\ upd = NoUpdate
    /\ IF ~Truthy(user_states, c)
       THEN UNCHANGED user_states
       ELSE IF AwaitingGoal(user_states[c])
       THEN user_states' = Put(user_states, c, Put(user_states[c], "state", "idle"))
       ELSE UNCHANGED user_states
    /\ UNCHANGED <<jobs, upd, tasks, rendered, followups, lastSet, scheduled>>

\* ---- specifications ------------------------------------------------------------
\* In every specification at most MaxTasks job callbacks are suspended at once.
\* one chat, every handler
Next ==
    \/ \E c \in Solo : start_command(c)
    \/ \E c \in Solo, args \in SettimeArgs : settime_command(c, args)
    \/ \E j \in 1 .. Len(jobs) : Len(tasks) < MaxTasks /\ send_daily_questions(j)
    \/ \E k \in 1 .. Len(tasks) : send_daily_questions_resume(k)
    \/ \E k \in 1 .. Len(tasks) : send_daily_questions_fails(k)
    \/ \E h \in rendered : \E data \in ButtonData(h) : button_callback(h, data)
    \/ \E ok \in BOOLEAN : button_callback_resume(ok)
    \/ \E c \in Solo : message_handler(c)

Spec == Init /\ [][Next]_vars

\* two chats; commands, trigger fires and prompt dispatch whose sends succeed
NextSched ==
    \/ \E c \in Chats : start_command(c)
    \/ \E c \in Chats, args \in SettimeArgs : settime_command(c, args)
    \/ \E j \in 1 .. Len(jobs) : Len(tasks) < MaxTasks /\ send_daily_questions(j)
    \/ \E k \in 1 .. Len(tasks) : send_daily_questions_resume(k)

SpecSched == Init /\ [][NextSched]_vars

\* one chat and a single trigger fire whose sends succeed; the event loop
\* resumes every suspended coroutine, and the user goes on answering open
\* prompts and sends the free text
NextLive ==
    \/ \E c \in Solo : start_command(c)
    \/ \E c \in Solo, args \in SettimeArgs : settime_command(c, args)
    \/ \E j \in 1 .. Len(jobs) :
          Len(tasks) < MaxTasks /\ rendered = {} /\ send_daily_questions(j)
    \/ \E k \in 1 .. Len(tasks) : send_daily_questions_resume(k)
    \/ \E h \in rendered : \E data \in ButtonData(h) : button_callback(h, data)
    \/ \E ok \in BOOLEAN : button_callback_resume(ok)
    \/ \E c \in Solo : message_handler(c)

LiveSpec ==
    /\ Init
    /\ [][NextLive]_vars
    /\ WF_vars(\E k \in 1 .. Len(tasks) : send_daily_questions_resume(k))
    /\ WF_vars(\E ok \in BOOLEAN : button_callback_resume(ok))
    /\ WF_vars(\E h \in rendered : \E data \in ButtonData(h) : button_callback(h, data))
    /\ WF_vars(\E c \in Solo : message_handler(c))

\* two chats and every handler; one trigger fire per chat, its sends succeed
PairArgs ==
    { << <<"0","2",":","3","0">> >>,
      << <<"2","5",":","0","0">> >> }

\* the first chat answers every prompt with yes, the second with no
PairData(h) == {<<QUESTIONS[h[3]], "|", IF h[1] = 1 THEN "yes" ELSE "no">>}

NextPair ==
    \/ \E c \in Chats : start_command(c)
    \/ \E c \in Chats, args \in PairArgs : settime_command(c, args)
    \/ \E j \in 1 .. Len(jobs) :
          /\ Len(tasks) < MaxTasks
          /\ \A h \in rendered : h[1] # jobs[j].data
          /\ send_daily_questions(j)
    \/ \E k \in 1 .. Len(tasks) : send_daily_questions_resume(k)
    \/ \E h \in rendered : \E data \in PairData(h) : button_callback(h, data)
    \/ \E ok \in BOOLEAN : button_callback_resume(ok)
    \/ \E c \in Chats : message_handler(c)

SpecPair == Init /\ [][NextPair]_vars

\* The process starts anew (main.py:47, 63: an empty store and an empty job
\* queue) while the chat still shows the prompts an earlier run of the process
\* has sent.
InitRestart ==
    /\ user_states = <<>>
    /\ jobs = <<>>
    /\ upd = NoUpdate
    /\ tasks = <<>>
    /\ rendered = {Handle(c, "old", i) : c \in Solo, i \in 1 .. Len(QUESTIONS)}
    /\ followups = [c \in Chats |-> 0]
    /\ lastSet = [c \in Chats |-> <<DEFAULT_HOUR, DEFAULT_MINUTE>>]
    /\ scheduled = {}

NextRestart ==
    \/ \E c \in Solo : start_command(c)
    \/ \E c \in Solo, args \in PairArgs : settime_command(c, args)
    \/ \E j \in 1 .. Len(jobs) : Len(tasks) < MaxTasks /\ send_daily_questions(j)
    \/ \E k \in 1 .. Len(tasks) : send_daily_questions_resume(k)
    \/ \E h \in rendered : \E data \in ButtonData(h) : button_callback(h, data)
    \/ \E ok \in BOOLEAN : button_callback_resume(ok)
    \/ \E c \in Solo : message_handler(c)

SpecRestart == InitRestart /\ [][NextRestart]_vars

\* one chat, every handler; every edit_reply_markup raises
NextEditFails ==
    \/ \E c \in Solo : start_command(c)
    \/ \E c \in Solo, args \in PairArgs : settime_command(c, args)
    \/ \E j \in 1 .. Len(jobs) : Len(tasks) < MaxTasks /\ send_daily_questions(j)
    \/ \E k \in 1 .. Len(tasks) : send_daily_questions_resume(k)
    \/ \E h \in rendered : \E data \in ButtonData(h) : button_callback(h, data)
    \/ button_callback_resume(FALSE)
    \/ \E c \in Solo : message_handler(c)

SpecEditFails == Init /\ [][NextEditFails]_vars

\* one chat; commands, trigger fires and prompt dispatch whose sends succeed; a
\* job may fire while the callbacks of MaxTasks earlier fires are still
\* suspended in send_message
NextOverlap ==
    \/ \E c \in Solo : start_command(c)
    \/ \E c \in Solo, args \in PairArgs : settime_command(c, args)
    \/ \E j \in 1 .. Len(jobs) : Len(tasks) <= MaxTasks /\ send_daily_questions(j)
    \/ \E k \in 1 .. Len(tasks) : send_daily_questions_resume(k)

SpecOverlap == Init /\ [][NextOverlap]_vars

\* ---- properties -----------------------------------------------------------------
JobTime(job) == <<job.hour, job.minute>>

HasRecord(c) == c \in DOMAIN user_states

StateOf(c) == IF HasRecord(c) THEN Get(user_states[c], "state") ELSE None

\* C1: every chat that has had a start or a successful settime has exactly one
\* job in the queue whose data is that chat: never two, never none.
C1_OneTriggerPerChat ==
    \A c \in scheduled : Len(JobsOf(c)) = 1

\* both chats are scheduled, chat 1 after a settime, and a callback is running
C1_Witness ==
    /\ scheduled = Chats
    /\ lastSet[1] = <<3, 15>>
    /\ lastSet[2] = <<DEFAULT_HOUR, DEFAULT_MINUTE>>
    /\ Len(tasks) > 0

\* C2: every job of a scheduled chat fires at the time of the chat's last
\* successful settime (01:00 if there was none), which is the time stored in
\* the chat's record; no job of the chat is left at an earlier time.
C2_TriggerAtStoredTime ==
    \A c \in scheduled :
        /\ HasRecord(c)
        /\ {"send_hour", "send_minute"} \subseteq DOMAIN user_states[c]
        /\ lastSet[c] = <<user_states[c]["send_hour"], user_states[c]["send_minute"]>>
        /\ JobsOf(c) # <<>>
        /\ \A k \in 1 .. Len(jobs) : jobs[k].data = c => JobTime(jobs[k]) = lastSet[c]

\* chat 1 is set to 03:15 and chat 2 to 02:30, and chat 1 has been triggered
C2_Witness ==
    /\ lastSet[1] = <<3, 15>>
    /\ lastSet[2] = <<2, 30>>
    /\ StateOf(1) = "answering"
    /\ \E k \in 1 .. Len(jobs) : jobs[k].data = 1 /\ JobTime(jobs[k]) = <<3, 15>>

\* settime arguments the interface calls malformed: wrong argument count,
\* non-numeric parts, no or too many colons, hour or minute out of range
MalformedArgs ==
    { <<>>,
      << <<"0","2",":","3","0">>, <<"x">> >>,
      << <<"a","b",":","c","d">> >>,
      << <<"0","2","3","0">> >>,
      << <<"1",":","2",":","3">> >>,
      << <<"2","5",":","0","0">> >>,
      << <<"1","2",":","6","0">> >> }

\* settime arguments of the form HH:MM with HH in 0..23 and MM in 0..59
WellFormedArgs ==
    { << <<"0","2",":","3","0">> >>,
      << <<"2",":","3","0">> >>,
      << <<"0","3",":","1","5">> >> }

KeyAnswered(c, q) ==
    /\ HasRecord(c)
    /\ "answers" \in DOMAIN user_states[c]
    /\ user_states[c]["answers"][q] \in {"yes", "no"}

Answered(c) ==
    IF HasRecord(c) /\ "answers" \in DOMAIN user_states[c]
    THEN {q \in QuestionSet : user_states[c]["answers"][q] # None}
    ELSE {}

\* C3: a settime with malformed arguments is answered with an error text and
\* changes neither the session store (not even which chats have a record) nor
\* the job queue.
C3_MalformedSettimeChangesNothing ==
    [][\A c \in Chats : \A args \in MalformedArgs :
          settime_command(c, args) =>
              /\ settime_reply(args) \in {"usage", "bad_format"}
              /\ UNCHANGED <<user_states, jobs>>]_vars

\* C4: a button press for a question that already has an answer, with the same
\* or the other value, changes neither the session store nor the number of
\* follow-up prompts, and leaves no handler suspended.
C4_DuplicateAnswerIgnored ==
    [][\A h \in rendered : \A data \in ButtonData(h) :
          (KeyAnswered(h[1], QUESTIONS[h[3]]) /\ button_callback(h, data)) =>
              /\ UNCHANGED <<user_states, followups>>
              /\ upd' = NoUpdate]_vars

\* two questions are answered in a running cycle and no handler is suspended,
\* so every further press on them is a duplicate
C4_Witness ==
    /\ StateOf(1) = "answering"
    /\ Answered(1) = {"Goal", "Growth"}
    /\ user_states[1]["answers"]["Goal"] = "yes"
    /\ user_states[1]["answers"]["Growth"] = "no"
    /\ upd = NoUpdate

\* C5: between two trigger fires a chat is asked for tomorrow's goal at most
\* once; the prompt is sent exactly in the step that moves the state from
\* answering to waiting_for_tomorrow_goal, and in that step all questions have
\* an answer.
C5_FollowUpOncePerCycle ==
    [][\A c \in Chats :
          LET asked == followups'[c] > followups[c]
              moved == /\ StateOf(c)' = "waiting_for_tomorrow_goal"
                       /\ StateOf(c) # "waiting_for_tomorrow_goal"
          IN  /\ followups'[c] <= 1
              /\ asked <=> moved
              /\ moved => /\ StateOf(c) = "answering"
                          /\ Answered(c)' = QuestionSet]_vars

\* the follow-up prompt has been sent in a cycle that started after prompts of
\* an earlier cycle were left behind
C5_Witness ==
    /\ followups[1] = 1
    /\ StateOf(1) = "waiting_for_tomorrow_goal"
    /\ \E h \in rendered : h[2] = "old"

\* C6: a trigger fire sets the chat's state to answering, its answers to all
\* four questions unanswered and its messages to empty, whatever they were.
C6_FireResetsCycle ==
    [][\A j \in 1 .. Len(jobs) :
          send_daily_questions(j) =>
              LET new == user_states'[jobs[j].data]
              IN  /\ new["state"] = "answering"
                  /\ DOMAIN new["answers"] = QuestionSet
                  /\ \A q \in QuestionSet : new["answers"][q] = None
                  /\ DOMAIN new["messages"] = {}]_vars

\* a fire has just discarded a cycle in which an answer had been recorded: its
\* button handler is still suspended on a prompt of the discarded cycle
C6_Witness ==
    /\ upd # NoUpdate
    /\ upd.message[2] = "old"
    /\ StateOf(1) = "answering"
    /\ Answered(1) = {}
    /\ \E k \in 1 .. Len(tasks) : tasks[k].gen = "cur" /\ tasks[k].i = 1

\* C7: a free-text message in state waiting_for_tomorrow_goal sets the state
\* to idle, changes nothing else in the record and is acknowledged; in every
\* other case (no record, empty record, no state, idle, answering) it changes
\* no record and sends nothing.
C7_FreeTextOnlyWhenAwaited ==
    [][\A c \in Chats :
          message_handler(c) =>
              IF StateOf(c) = "waiting_for_tomorrow_goal"
              THEN /\ message_reply(user_states, c) = "goal_accepted"
                   /\ DOMAIN user_states' = DOMAIN user_states
                   /\ \A x \in DOMAIN user_states : x # c => user_states'[x] = user_states[x]
                   /\ DOMAIN user_states'[c] = DOMAIN user_states[c]
                   /\ user_states'[c]["state"] = "idle"
                   /\ \A key \in DOMAIN user_states[c] \ {"state"} :
                          user_states'[c][key] = user_states[c][key]
              ELSE /\ message_reply(user_states, c) = None
                   /\ UNCHANGED user_states]_vars

\* the free text of a completed cycle has been accepted
C7_Witness ==
    /\ StateOf(1) = "idle"
    /\ followups[1] = 1
    /\ Answered(1) = QuestionSet

\* C8: once the trigger has fired for a fresh chat, the cycle completes: the
\* four prompts are rendered, the answers bring the state to
\* waiting_for_tomorrow_goal, and the free text brings it to idle.
C8_CycleCompletes ==
    \A c \in Solo : (StateOf(c) = "answering") ~> (StateOf(c) = "idle")

\* the chat is idle again after a cycle in which four prompts were rendered,
\* all were answered and the follow-up was asked once
C8_Witness ==
    /\ StateOf(1) = "idle"
    /\ Cardinality(rendered) = Len(QUESTIONS)
    /\ Answered(1) = QuestionSet
    /\ followups[1] = 1
    /\ user_states[1]["answers"]["Goal"] = "yes"
    /\ user_states[1]["answers"]["Sport"] = "no"

\* C10: start leaves every key already in the chat's record as it is and adds
\* state idle and the time 01:00 only where the key is missing, then registers
\* the chat's one job at the stored time; a successful settime changes only
\* send_hour, send_minute and the job; neither touches answers, messages,
\* suspended handlers or rendered prompts.
C10_CommandsKeepCycle ==
    [][\A c \in DOMAIN user_states' :
          LET old == IF HasRecord(c) THEN user_states[c] ELSE <<>>
              new == user_states'[c]
          IN  /\ start_command(c) =>
                    /\ DOMAIN new = DOMAIN old \cup {"state", "send_hour", "send_minute"}
                    /\ \A key \in DOMAIN old : new[key] = old[key]
                    /\ "state" \notin DOMAIN old => new["state"] = "idle"
                    /\ "send_hour" \notin DOMAIN old => new["send_hour"] = 1
                    /\ "send_minute" \notin DOMAIN old => new["send_minute"] = 0
                    /\ Len(JobsOf(c))' = 1
                    /\ JobTime(JobsOf(c)[1])' = <<new["send_hour"], new["send_minute"]>>
                    /\ UNCHANGED <<upd, tasks, rendered, followups>>
              /\ \A args \in WellFormedArgs :
                    settime_command(c, args) =>
                        /\ DOMAIN new = DOMAIN old \cup {"send_hour", "send_minute"}
                        /\ \A key \in DOMAIN old \ {"send_hour", "send_minute"} :
                               new[key] = old[key]
                        /\ UNCHANGED <<upd, tasks, rendered, followups>>]_vars

\* a cycle is in flight with answers recorded and a handler suspended, the
\* time has been set to 03:15 and the job is registered at it
C10_Witness ==
    /\ StateOf(1) = "answering"
    /\ Answered(1) = {"Goal", "New"}
    /\ upd # NoUpdate
    /\ lastSet[1] = <<3, 15>>
    /\ Len(JobsOf(1)) = 1
    /\ JobTime(JobsOf(1)[1]) = <<3, 15>>

\* C9: a chat that has exactly one job has exactly one job after every step of
\* every handler and callback: no step leaves it with none or with two.
C9_RescheduleAtomic ==
    [][\A c \in Chats : Len(JobsOf(c)) = 1 => Len(JobsOf(c))' = 1]_vars

\* both chats have their job while a callback of chat 2 is suspended and chat 1
\* has been rescheduled
C9_Witness ==
    /\ \A c \in Chats : Len(JobsOf(c)) = 1
    /\ lastSet[1] = <<2, 30>>
    /\ \E k \in 1 .. Len(tasks) : tasks[k].chat = 2 /\ tasks[k].i = 3
\* ---- C11 ----
\* the session record of chat c, if it has one
SessionOf(c) == IF HasRecord(c) THEN {user_states[c]} ELSE {}

\* the step is the handling of an event of chat a: a command, a trigger fire,
\* a step of the prompt dispatch, a button press, the completion of a button
\* handler, or a free text
EventFor(a) ==
    \/ start_command(a)
    \/ \E args \in PairArgs : settime_command(a, args)
    \/ \E j \in 1 .. Len(jobs) : jobs[j].data = a /\ send_daily_questions(j)
    \/ \E k \in 1 .. Len(tasks) : tasks[k].chat = a /\ send_daily_questions_resume(k)
    \/ \E h \in rendered : h[1] = a /\ \E data \in PairData(h) : button_callback(h, data)
    \/ upd # NoUpdate /\ upd.chat = a /\ \E ok \in BOOLEAN : button_callback_resume(ok)
    \/ message_handler(a)

\* C11: an event of chat a leaves the session record, the jobs and the
\* follow-up count of every other chat b as they were; in particular a
\* rescheduling for a removes no job of b, although all jobs have the same name
\* and may have the same time.
C11_ChatsDoNotInterfere ==
    [][\A a \in Chats : EventFor(a) =>
          \A b \in Chats \ {a} :
              /\ SessionOf(b)' = SessionOf(b)
              /\ JobsOf(b)' = JobsOf(b)
              /\ followups'[b] = followups[b]]_vars

\* chat 1 was rescheduled to the time of chat 2's job while both were in a
\* cycle: chat 2 has answered everything (no), chat 1 one question (yes)
C11_Witness ==
    /\ Len(jobs) = 2
    /\ jobs[1].data = 2 /\ jobs[2].data = 1
    /\ JobTime(jobs[1]) = <<2, 30>> /\ JobTime(jobs[2]) = <<2, 30>>
    /\ StateOf(2) = "waiting_for_tomorrow_goal"
    /\ \A q \in QuestionSet : user_states[2]["answers"][q] = "no"
    /\ StateOf(1) = "answering"
    /\ Answered(1) = {"Goal"}
    /\ user_states[1]["answers"]["Goal"] = "yes"

\* ---- C12 ----
\* C12: a button press of a chat that has no record, or whose record has no
\* state or a state other than answering, changes nothing in the store, requests
\* no edit of a message and sends no follow-up question.
C12_AnswerOutsideCycleIgnored ==
    [][\A h \in rendered :
          StateOf(h[1]) # "answering" =>
              \A data \in ButtonData(h) :
                  button_callback(h, data) =>
                      /\ UNCHANGED <<user_states, followups>>
                      /\ upd' = NoUpdate]_vars

\* a prompt of an earlier run is on screen and the chat's record, made by
\* /settime, has no state
C12_Witness ==
    /\ HasRecord(1)
    /\ DOMAIN user_states[1] = {"send_hour", "send_minute"}
    /\ Handle(1, "old", 2) \in rendered
    /\ upd = NoUpdate

\* ---- C13 ----
\* C13: when edit_reply_markup raises, the handler goes on as if it had
\* succeeded: the recorded answers stay, and if every question has an answer the
\* state becomes waiting_for_tomorrow_goal and the follow-up question is sent;
\* otherwise state and follow-up count stay.
C13_FailedEditKeepsCycle ==
    [][\A c \in Chats :
          (upd # NoUpdate /\ upd.chat = c /\ button_callback_resume(FALSE)) =>
              /\ user_states'[c]["answers"] = user_states[c]["answers"]
              /\ IF Answered(c) = QuestionSet
                 THEN /\ StateOf(c)' = "waiting_for_tomorrow_goal"
                      /\ followups'[c] = followups[c] + 1
                 ELSE /\ StateOf(c)' = StateOf(c)
                      /\ followups'[c] = followups[c]]_vars

\* every edit has failed, and the cycle is complete with the follow-up sent once
C13_Witness ==
    /\ StateOf(1) = "waiting_for_tomorrow_goal"
    /\ followups[1] = 1
    /\ upd = NoUpdate
    /\ user_states[1]["answers"]["Goal"] = "no"
    /\ user_states[1]["answers"]["Sport"] = "yes"
    /\ Answered(1) = QuestionSet

\* ---- C14 ----
\* C14: in every reachable state, a chat whose state is answering has at least
\* one question without an answer.
C14_AnsweringHasUnanswered ==
    \A c \in DOMAIN user_states :
        StateOf(c) = "answering" => Answered(c) # QuestionSet

\* ---- C15 ----
\* C15: in every reachable state, a chat whose state is
\* waiting_for_tomorrow_goal has an answer for every question.
C15_AwaitingHasAllAnswers ==
    \A c \in DOMAIN user_states :
        StateOf(c) = "waiting_for_tomorrow_goal" =>
            /\ "answers" \in DOMAIN user_states[c]
            /\ DOMAIN user_states[c]["answers"] = QuestionSet
            /\ \A q \in QuestionSet : user_states[c]["answers"][q] \in {"yes", "no"}

\* the cycle was completed while its third prompt was being sent, after an
\* earlier fire had left prompts on screen
C15_Witness ==
    /\ StateOf(1) = "waiting_for_tomorrow_goal"
    /\ Len(tasks) = 1
    /\ tasks[1].gen = "cur" /\ tasks[1].i = 3
    /\ Handle(1, "old", 4) \in rendered
    /\ user_states[1]["answers"]["Sport"] = "yes"
    /\ upd = NoUpdate

\* ---- C16 ----
\* C16: every record of the store has a state that is idle, answering or
\* waiting_for_tomorrow_goal, a send_hour in 0..23 and a send_minute in 0..59,
\* whichever handler created the record.
C16_RecordWellFormed ==
    \A c \in DOMAIN user_states :
        /\ {"state", "send_hour", "send_minute"} \subseteq DOMAIN user_states[c]
        /\ user_states[c]["state"] \in {"idle", "answering", "waiting_for_tomorrow_goal"}
        /\ user_states[c]["send_hour"] \in 0 .. 23
        /\ user_states[c]["send_minute"] \in 0 .. 59

\* ---- C17 ----
\* C17: the callback of a fire sends the prompts one at a time in the order of
\* QUESTIONS, and when its last send has returned, messages holds for every
\* question the id of the prompt this callback has sent for it.
C17_DispatchStoresOwnPrompts ==
    [][\A k \in 1 .. Len(tasks) :
          send_daily_questions_resume(k) =>
              LET t == tasks[k]
                  c == t.chat
              IN  IF t.i < Len(QUESTIONS)
                  THEN rendered' \ rendered \subseteq {Handle(c, t.gen, t.i + 1)}
                  ELSE /\ rendered' = rendered
                       /\ DOMAIN user_states'[c]["messages"] = QuestionSet
                       /\ \A i \in 1 .. Len(QUESTIONS) :
                             user_states'[c]["messages"][QUESTIONS[i]] =
                                 Handle(c, t.gen, i)]_vars

\* ---- C18 ----
\* C18: when a press for question q with value v is accepted, the edit is
\* requested on the message whose id is stored in messages[q], and the button
\* it leaves shows yes exactly if v is yes; also when the pressed button
\* belongs to a prompt of an earlier fire.
C18_EditTargetsStoredPrompt ==
    [][\A h \in rendered :
          StateOf(h[1]) = "answering" =>
              \A v \in {"yes", "no"} :
                  LET c == h[1]
                      q == QUESTIONS[h[3]]
                  IN  (button_callback(h, <<q, "|", v>>) /\ upd' # NoUpdate) =>
                          /\ q \in DOMAIN user_states[c]["messages"]
                          /\ upd'.message = user_states[c]["messages"][q]
                          /\ upd'.markup = "chosen_yes" <=> v = "yes"]_vars

\* ---- C19 ----
\* C19: whenever the state is answering, a question has no answer and no
\* button handler is suspended, a press for that question on any prompt on
\* screen is recorded: on a prompt of the latest fire or of an earlier one, with
\* or without an id stored for the question. The other answers and the state
\* stay, and the edit is requested on the pressed message.
C19_AcceptanceIgnoresPrompt ==
    \A h \in rendered : \A v \in {"yes", "no"} :
        LET c == h[1]
            q == QUESTIONS[h[3]]
        IN  (upd = NoUpdate /\ StateOf(c) = "answering" /\ ~KeyAnswered(c, q)) =>
                ENABLED
                    /\ button_callback(h, <<q, "|", v>>)
                    /\ user_states'[c]["answers"][q] = v
                    /\ \A r \in QuestionSet \ {q} :
                          user_states'[c]["answers"][r] = user_states[c]["answers"][r]
                    /\ user_states'[c]["state"] = "answering"
                    /\ upd'.message = h

\* the cycle is complete although the callback of its fire has sent the first
\* prompt only: the other answers came from prompts of earlier fires
C19_Witness ==
    /\ StateOf(1) = "waiting_for_tomorrow_goal"
    /\ followups[1] = 1
    /\ Answered(1) = QuestionSet
    /\ Len(tasks) = 1
    /\ tasks[1].gen = "cur" /\ tasks[1].i = 1
    /\ {h \in rendered : h[2] = "cur"} = {Handle(1, "cur", 1)}
    /\ DOMAIN user_states[1]["messages"] = {}

\* ---- C20 ----
\* a press for a question without an answer is taken while a job callback is
\* suspended in send_message
PressTakenDuringDispatch ==
    \A h \in rendered : \A v \in {"yes", "no"} :
        LET c == h[1]
            q == QUESTIONS[h[3]]
        IN  (/\ \E k \in 1 .. Len(tasks) : tasks[k].chat = c
             /\ upd = NoUpdate
             /\ StateOf(c) = "answering"
             /\ ~KeyAnswered(c, q)) =>
                ENABLED (button_callback(h, <<q, "|", v>>) /\ KeyAnswered(c, q)')

\* a step of the callback after its first send changes nothing of the record
\* but messages, at the question just sent
DispatchStepKeepsRecord ==
    \A k \in 1 .. Len(tasks) :
        send_daily_questions_resume(k) =>
            LET c == tasks[k].chat
                q == QUESTIONS[tasks[k].i]
                old == user_states[c]
                new == user_states'[c]
            IN  /\ DOMAIN new = DOMAIN old
                /\ \A key \in DOMAIN old \ {"messages"} : new[key] = old[key]
                /\ \A r \in DOMAIN old["messages"] \ {q} :
                      new["messages"][r] = old["messages"][r]
                /\ followups' = followups

\* C20: a press that arrives while the callback of a fire is suspended between
\* two sends is recorded, and the later steps of the callback keep it: state and
\* answers are reset only in the step of the fire, before the first send, and
\* every later step changes messages only.
C20_DispatchKeepsAnswers ==
    /\ []PressTakenDuringDispatch
    /\ [][DispatchStepKeepsRecord]_vars

\* the callback is suspended in its last send, and the answers given to its
\* second and third prompt are in the record
C20_Witness ==
    /\ StateOf(1) = "answering"
    /\ Len(tasks) = 1
    /\ tasks[1].gen = "cur" /\ tasks[1].i = 4
    /\ Answered(1) = {"New", "Growth"}
    /\ user_states[1]["answers"]["New"] = "no"
    /\ DOMAIN user_states[1]["messages"] = {"Goal", "New", "Growth"}
    /\ \A h \in rendered : h[2] = "cur"

====
